---- MODULE Spec2Model ----
(***************************************************************************)
(* Model of python_script/VII.py: the function generate (lines 22-195) and *)
(* the module-level code that builds the six-stage schedule (lines         *)
(* 201-214) and runs the chain (lines 216-238).                            *)
(*                                                                         *)
(* Three specifications share the actions of generate:                     *)
(*   SpecModule    the module as it is written, from line 201 on;          *)
(*   Spec          the loop of lines 216-238, entered with the literals of *)
(*                 lines 201-214 bound;                                    *)
(*   SpecGenerate  one call of generate on arguments drawn from sets.      *)
(*                                                                         *)
(* Python floats are modelled as exact rationals, so floating-point        *)
(* rounding is not part of the model.                                      *)
(***************************************************************************)
EXTENDS Integers, Sequences, FiniteSets, TLC

VARIABLES
  pc,        \* position of the single thread of control
  globals,   \* the module's global names bound so far (name -> value)
  args,      \* the arguments of the current call of generate
  frame,     \* the locals of the current call of generate bound so far
  fs,        \* the "generated" directory: file name -> stored sequence
  error,     \* the exception that ended the run, "none" while it runs
  log        \* history of the external calls made (ghost)

vars == <<pc, globals, args, frame, fs, error, log>>

---------------------------------------------------------------------------
(* Bounds of the model *)

\* most tempo records a primer file found on disk carries
MaxTempos == 2
\* longest primer file found on disk, in units of 12 seconds
MaxPrimerUnits == 2

---------------------------------------------------------------------------
(* Exact rationals standing for Python floats *)

RECURSIVE GCD(_, _)
GCD(a, b) == IF b = 0 THEN a ELSE GCD(b, a % b)

Abs(i) == IF i < 0 THEN -i ELSE i

\* the rational n/d in lowest terms with a positive denominator (d # 0)
Rat(n, d) ==
  LET g == GCD(Abs(n), Abs(d))
      s == IF d < 0 THEN -1 ELSE 1
  IN  [n |-> s * (n \div g), d |-> s * (d \div g)]

R(i) == [n |-> i, d |-> 1]

LCM(a, b) == (a \div GCD(a, b)) * b

RAdd(a, b) ==
  LET l == LCM(a.d, b.d)
  IN  Rat(a.n * (l \div a.d) + b.n * (l \div b.d), l)

RNeg(a) == [n |-> -a.n, d |-> a.d]

RSub(a, b) == RAdd(a, RNeg(b))

RMul(a, b) ==
  LET g1 == GCD(Abs(a.n), b.d)
      g2 == GCD(Abs(b.n), a.d)
  IN  Rat((a.n \div g1) * (b.n \div g2), (a.d \div g2) * (b.d \div g1))

\* a / b for b # 0
RDiv(a, b) == RMul(a, Rat(b.d, b.n))

RLess(a, b) ==
  LET l == LCM(a.d, b.d)
  IN  a.n * (l \div a.d) < b.n * (l \div b.d)

RLeq(a, b) == ~RLess(b, a)

\* math.ceil: the least integer >= a
Ceil(a) == -((-a.n) \div a.d)

---------------------------------------------------------------------------
(* NoteSequence: the tempo records (qpm each) and total_time in seconds,   *)
(* the only fields generate reads.                                         *)

NoteSequence == [tempos |-> <<>>, total_time |-> R(0)]

\* magenta.music.DEFAULT_QUARTERS_PER_MINUTE, the default of parameter qpm
DEFAULT_QUARTERS_PER_MINUTE == 120

\* the falsy primer_filename (None or "")
NoPrimer == ""

---------------------------------------------------------------------------
(* The literals of lines 201-214; Python lists are 0-indexed *)

At(list, i) == list[i + 1]

bundles == <<"angry.mag", "wativ.mag", "wativ.mag", "neutral.mag", "wativ.mag", "duo.mag">>

\* a slip in the names: the third stage writes to the first stage's file
filenames_reused == <<"primer.mid", "primer1.mid", "primer.mid", "primer3.mid", "primer4.mid",
                      "VIII.machine_music_wativ_img_2440_9.mid">>

filenames == <<"primer.mid", "primer1.mid", "primer2.mid", "primer3.mid", "primer4.mid",
               "VIII.machine_music_wativ_img_2440_9.mid">>

bars == <<12, 8, 8, 8, 4, 4>>

s_p_q == <<4, 16, 32, 32, 6, 2>>

\* line 211 with its fifth element, an unbound name, given the value c
conditions(c) == <<FALSE, FALSE, FALSE, FALSE, c, FALSE>>

injections == <<TRUE, TRUE, FALSE, TRUE, TRUE, TRUE>>

\* temperatures as rationals: 1.0 and 1.4
temperatures == <<R(1), R(1), R(1), R(1), R(1), Rat(14, 10)>>

\* a slip in the chain: the fourth stage is seeded from the second's output
primers_skewed == <<"wativ_img_2440.mid", "primer.mid", "primer1.mid", "primer1.mid",
                    "primer3.mid", "primer4.mid">>

primers == <<"wativ_img_2440.mid", "primer.mid", "primer1.mid", "primer2.mid", "primer3.mid",
             "primer4.mid">>

\* the stage's own bars taken for the running total
StepOf_ownBars(totalBars, spqs, idx) == At(bars, idx) * At(spqs, idx) * 4

\* line 209: the value appended to steps in iteration idx
StepOf(totalBars, spqs, idx) == totalBars * At(spqs, idx) * 4

\* lines 207-209 run to the end: steps after the first k iterations
RECURSIVE TotalBarsAfter(_, _)
TotalBarsAfter(bs, k) == IF k = 0 THEN 0 ELSE TotalBarsAfter(bs, k - 1) + bs[k]

StepsAfter(bs, spqs, k) == [i \in 1..k |-> StepOf(TotalBarsAfter(bs, i), spqs, i - 1)]

\* the global names bound when line 216 is reached, conditions[4] being c
LoopGlobals(c) ==
  [bundles |-> bundles, filenames |-> filenames,
   steps |-> StepsAfter(bars, s_p_q, Len(bars)), bars |-> bars, s_p_q |-> s_p_q,
   totalBars |-> TotalBarsAfter(bars, Len(bars)),
   idx |-> Len(bars) - 1, x |-> bars[Len(bars)],
   conditions |-> conditions(c), injections |-> injections,
   temperatures |-> temperatures, primers |-> primers]

---------------------------------------------------------------------------
(* The window arithmetic of generate, lines 126-163 *)

\* line 126 (qpm # 0 and spq # 0)
seconds_per_step(qpm, spq) == RDiv(RDiv(R(60), R(qpm)), R(spq))

\* lines 131-132
primer_sequence_length_steps(total_time, sps) == Ceil(RDiv(total_time, sps))

\* line 133
primer_sequence_length_time(plsteps, sps) == RMul(R(plsteps), sps)

\* the adjustment made whatever the primer's length
primer_end_adjust_always(pltime) == Rat(1, 100000)

\* line 140
primer_end_adjust(pltime) == IF RLess(R(0), pltime) THEN Rat(1, 100000) ELSE R(0)

\* lines 141-144
primer_end_time(pltime, adjust) == RSub(RAdd(R(0), pltime), adjust)

\* line 148
generation_length_steps(total_length_steps, plsteps) == total_length_steps - plsteps

\* the check off by one: a generation of zero steps is let through
TotalLengthTooSmall_strict(glsteps) == glsteps < 0

\* line 149
TotalLengthTooSmall(glsteps) == glsteps <= 0

\* line 154
generation_length_time(glsteps, sps) == RMul(R(glsteps), sps)

\* the adjustment taken from the primer window is not given back
generation_end_time_unadjusted(start, gltime, adjust) == RAdd(start, gltime)

\* lines 160-163
generation_end_time(start, gltime, adjust) == RAdd(RAdd(start, gltime), adjust)

\* the check off by one: two tempo records are let through
MultipleTempos_three(tempos) == Len(tempos) > 2

\* lines 119-122: more than one tempo record is refused
MultipleTempos(tempos) == Len(tempos) > 1

\* lines 119-122: the qpm generate goes on with
EffectiveQpm(tempos, qpm) == IF tempos # <<>> THEN tempos[1] ELSE qpm

\* the locals bound by lines 126-148 for primer p, qpm q and the generator's spq
LengthLocals(p, q, spq, total_length_steps) ==
  LET sps == seconds_per_step(q, spq)
      pls == primer_sequence_length_steps(p.total_time, sps)
      plt == primer_sequence_length_time(pls, sps)
      adj == primer_end_adjust(plt)
  IN  [seconds_per_step |-> sps,
       primer_sequence_length_steps |-> pls,
       primer_sequence_length_time |-> plt,
       primer_end_adjust |-> adj,
       primer_start_time |-> R(0),
       primer_end_time |-> primer_end_time(plt, adj),
       generation_length_steps |-> generation_length_steps(total_length_steps, pls)]

\* the locals bound by lines 154-163
WindowLocals(l) ==
  LET glt == generation_length_time(l.generation_length_steps, l.seconds_per_step)
  IN  [generation_length_time |-> glt,
       generation_start_time |-> l.primer_end_time,
       generation_end_time |->
         generation_end_time(l.primer_end_time, glt, l.primer_end_adjust)]

---------------------------------------------------------------------------
(* The environment: files on disk and the outputs of the opaque generator *)

\* the tempo lists a file found on disk may carry
TempoLists ==
  {<<>>} \cup {[i \in 1..k |-> IF i = 1 THEN q ELSE 60] : k \in 1..MaxTempos, q \in {60, 120}}

\* the durations a file found on disk may have, in seconds
PrimerTimes ==
  {R(0), R(2), Rat(203, 100)} \cup {R(12 * k) : k \in 1..MaxPrimerUnits}

DiskSequences == [tempos : TempoLists, total_time : PrimerTimes]

\* what is left in "generated" by an earlier run of the script
StaleSequence == [tempos |-> <<90>>, total_time |-> R(1)]

\* the sequences generator.generate may return for a call with the locals l:
\* it ends at the requested end or runs to twice that, and carries no tempo,
\* the tempo it was run at, or two tempo records
GeneratorOutputs(l) ==
  LET e == IF RLess(l.generation_end_time, R(0)) THEN R(0) ELSE l.generation_end_time
  IN  [tempos : {<<>>, <<l.qpm>>, <<l.qpm, 60>>}, total_time : {e, RMul(R(2), e)}]

\* the directory after name is written with sequence s (overwriting)
WriteFile(dir, name, s) ==
  [n \in DOMAIN dir \cup {name} |-> IF n = name THEN s ELSE dir[n]]

Event(ev, stage, name, s, l) ==
  [ev |-> ev, stage |-> stage, name |-> name, seq |-> s,
   qpm |-> IF "qpm" \in DOMAIN l THEN l.qpm ELSE 0,
   start_time |-> IF "generation_start_time" \in DOMAIN l
                    THEN l.generation_start_time ELSE R(0),
   end_time |-> IF "generation_end_time" \in DOMAIN l
                  THEN l.generation_end_time ELSE R(0)]

---------------------------------------------------------------------------
(* generate, lines 22-195 *)

\* the stage a call belongs to: the global x of line 216, 0 for a call made
\* outside the loop
Stage == IF "x" \in DOMAIN globals THEN globals.x ELSE 0

\* an exception caught and dropped at the call: the loop goes on
Raise_swallowed(kind) ==
  /\ pc' = "returned"
  /\ error' = kind

\* an uncaught exception ends the process
Raise(kind) ==
  /\ pc' = "failed"
  /\ error' = kind

\* lines 93-105: download and read the bundle, build and initialise the
\* generator, set its steps_per_quarter
InitGenerator ==
  /\ pc = "L93"
  /\ \E ok \in BOOLEAN :
       IF ok
         THEN /\ frame' = frame @@ ("generator_steps_per_quarter" :> args.steps_per_quarter)
              /\ pc' = "L111"
              /\ error' = error
         ELSE /\ Raise("BundleError")
              /\ frame' = frame
  /\ UNCHANGED <<globals, args, fs, log>>

\* lines 111-115: the primer read from "generated", or an empty sequence
LoadPrimer ==
  /\ pc = "L111"
  /\ IF args.primer_filename # NoPrimer
       THEN IF args.primer_filename \in DOMAIN fs
              THEN /\ frame' = frame @@ ("primer_sequence" :> fs[args.primer_filename])
                   /\ log' = Append(log, Event("load", Stage, args.primer_filename,
                                               fs[args.primer_filename], frame))
                   /\ pc' = "L119"
                   /\ error' = error
              ELSE /\ Raise("NotFound")
                   /\ UNCHANGED <<frame, log>>
       ELSE /\ frame' = frame @@ ("primer_sequence" :> NoteSequence)
            /\ pc' = "L119"
            /\ UNCHANGED <<error, log>>
  /\ UNCHANGED <<globals, args, fs>>

\* lines 119-122: the primer's tempo overrides the argument qpm
ResolveTempo ==
  /\ pc = "L119"
  /\ IF frame.primer_sequence.tempos # <<>> /\ MultipleTempos(frame.primer_sequence.tempos)
       THEN /\ Raise("MultipleTempos")
            /\ frame' = frame
       ELSE /\ frame' = frame @@
                 ("qpm" :> EffectiveQpm(frame.primer_sequence.tempos, args.qpm))
            /\ pc' = "L126"
            /\ error' = error
  /\ UNCHANGED <<globals, args, fs, log>>

\* lines 126-163: seconds per step, primer length, generation length and
\* the two windows
ComputeWindow ==
  /\ pc = "L126"
  /\ IF frame.qpm = 0 \/ frame.generator_steps_per_quarter = 0
       THEN /\ Raise("ZeroDivisionError")
            /\ frame' = frame
       ELSE LET l == LengthLocals(frame.primer_sequence, frame.qpm,
                                  frame.generator_steps_per_quarter,
                                  args.total_length_steps)
            IN  IF TotalLengthTooSmall(l.generation_length_steps)
                  THEN /\ Raise("TotalLengthTooSmall")
                       /\ frame' = frame @@ l
                  ELSE /\ frame' = frame @@ l @@ WindowLocals(l)
                       /\ pc' = "L172"
                       /\ error' = error
  /\ UNCHANGED <<globals, args, fs, log>>

\* lines 172-186: the options are filled in and the generator is called
CallGenerator ==
  /\ pc = "L172"
  /\ log' = Append(log, Event("generate", Stage, args.primer_filename,
                              frame.primer_sequence, frame))
  /\ \/ \E s \in GeneratorOutputs(frame) :
          /\ frame' = frame @@ ("sequence" :> s)
          /\ pc' = "L190"
          /\ error' = error
     \/ /\ Raise("GenerationError")
        /\ frame' = frame
  /\ UNCHANGED <<globals, args, fs>>

\* lines 190-192: the sequence is written to "generated"
WriteMidi ==
  /\ pc = "L190"
  /\ \/ /\ fs' = WriteFile(fs, args.midi_filename, frame.sequence)
        /\ log' = Append(log, Event("write", Stage, args.midi_filename, frame.sequence, frame))
        /\ pc' = "L195"
        /\ error' = error
     \/ /\ Raise("WriteError")
        /\ UNCHANGED <<fs, log>>
  /\ UNCHANGED <<globals, args, frame>>

\* line 195
Return ==
  /\ pc = "L195"
  /\ pc' = "returned"
  /\ UNCHANGED <<globals, args, frame, fs, error, log>>

GenerateNext ==
  \/ InitGenerator
  \/ LoadPrimer
  \/ ResolveTempo
  \/ ComputeWindow
  \/ CallGenerator
  \/ WriteMidi
  \/ Return

---------------------------------------------------------------------------
(* The loop of lines 216-238 *)

\* lines 217-225: the globals bound for stage i
StageGlobals(g, i) ==
  [x |-> i,
   bundle |-> At(g.bundles, i),
   filename |-> At(g.filenames, i),
   step |-> At(g.steps, i),
   spq |-> At(g.s_p_q, i),
   condition |-> At(g.conditions, i),
   injection |-> At(g.injections, i),
   temperature |-> At(g.temperatures, i),
   primer |-> At(g.primers, i)]

\* the keyword arguments of lines 228-238; qpm, beam_size, branch_factor and
\* steps_per_iteration keep their defaults (lines 29-35)
StageArgs(g) ==
  [bundle_name |-> g.bundle,
   generator_id |-> "polyphony",
   midi_filename |-> g.filename,
   total_length_steps |-> g.step,
   steps_per_quarter |-> g.spq,
   primer_filename |-> g.primer,
   qpm |-> DEFAULT_QUARTERS_PER_MINUTE,
   condition_on_primer |-> g.condition,
   inject_primer_during_generation |-> g.injection,
   temperature |-> g.temperature,
   beam_size |-> 1, branch_factor |-> 1, steps_per_iteration |-> 1]

\* line 216: the index the for statement binds next, starting at 0
NextIndex == IF pc = "L216" THEN 0 ELSE globals.x + 1

\* lines 216-238: the next stage is called, or the range is exhausted
LoopNext ==
  /\ pc \in {"L216", "returned"}
  /\ IF NextIndex < Len(globals.bars)
       THEN /\ globals' = StageGlobals(globals, NextIndex) @@ globals
            /\ args' = StageArgs(globals')
            /\ frame' = <<>>
            /\ pc' = "L93"
       ELSE /\ pc' = "done"
            /\ UNCHANGED <<globals, args, frame>>
  /\ UNCHANGED <<fs, error, log>>

---------------------------------------------------------------------------
(* The module-level statements of lines 201-211 *)

\* lines 201-206
ModuleLiterals ==
  /\ pc = "L201"
  /\ globals' = [bundles |-> bundles, filenames |-> filenames, steps |-> <<>>,
                 bars |-> bars, s_p_q |-> s_p_q, totalBars |-> 0] @@ globals
  /\ pc' = "L207"
  /\ UNCHANGED <<args, frame, fs, error, log>>

\* lines 207-210: one iteration of the loop over enumerate(bars), or its end
StepsLoop ==
  /\ pc = "L207"
  /\ LET idx == IF "idx" \in DOMAIN globals THEN globals.idx + 1 ELSE 0
     IN  IF idx < Len(globals.bars)
           THEN LET bar == At(globals.bars, idx)
                    totalBars == globals.totalBars + bar
                IN  /\ globals' =
                         [idx |-> idx, x |-> bar, totalBars |-> totalBars,
                          steps |-> Append(globals.steps,
                                           StepOf(totalBars, globals.s_p_q, idx))]
                         @@ globals
                    /\ pc' = pc
           ELSE /\ pc' = "L211"
                /\ globals' = globals
  /\ UNCHANGED <<args, frame, fs, error, log>>

\* line 211: the list display reads the name FoTheTrue, which no statement
\* of the module binds and which is no builtin
ConditionsLiteral ==
  /\ pc = "L211"
  /\ IF "FoTheTrue" \in DOMAIN globals
       THEN /\ globals' = [conditions |-> conditions(globals.FoTheTrue)] @@ globals
            /\ pc' = "L212"
            /\ error' = error
       ELSE /\ Raise("NameError")
            /\ globals' = globals
  /\ UNCHANGED <<args, frame, fs, log>>

---------------------------------------------------------------------------
(* Initial states and specifications *)

\* the "generated" directory before the run: the external primer as found
\* on disk or missing, the output files absent or left by an earlier run
InitialDirectories ==
  {[n \in (IF stale THEN {filenames[i] : i \in 1..Len(filenames)} ELSE {})
          \cup (IF present THEN {primers[1]} ELSE {})
      |-> IF n = primers[1] THEN p ELSE StaleSequence] :
     stale \in BOOLEAN, present \in BOOLEAN, p \in DiskSequences}

\* the module is started: nothing is bound yet
ModuleInit ==
  /\ pc = "L201"
  /\ globals = <<>>
  /\ args = <<>>
  /\ frame = <<>>
  /\ fs \in InitialDirectories
  /\ error = "none"
  /\ log = <<>>

ModuleNext == ModuleLiterals \/ StepsLoop \/ ConditionsLiteral

SpecModule == ModuleInit /\ [][ModuleNext]_vars

\* when line 211 is reached, lines 201-210 have bound what LoopGlobals holds
\* for these names
StepsLoopAgrees ==
  pc = "L211" =>
    \A name \in {"bundles", "filenames", "steps", "bars", "s_p_q", "totalBars", "idx", "x"} :
      globals[name] = LoopGlobals(FALSE)[name]

\* line 216 is entered with the literals of lines 201-214 bound.  The name
\* line 211 reads is unbound in the module as written (SpecModule), so the
\* loop is checked for either Boolean in its place.
Init ==
  /\ pc = "L216"
  /\ \E c \in BOOLEAN : globals = LoopGlobals(c)
  /\ args = <<>>
  /\ frame = <<>>
  /\ fs \in InitialDirectories
  /\ error = "none"
  /\ log = <<>>

Next == LoopNext \/ GenerateNext

Spec == Init /\ [][Next]_vars

\* the arguments one call of generate is checked on
GenerateArgs ==
  [bundle_name : {bundles[1]},
   generator_id : {"polyphony"},
   midi_filename : {filenames[1]},
   total_length_steps : {16, 48, 64},
   steps_per_quarter : {-4, 0, 4, 6},
   primer_filename : {NoPrimer, primers[1]},
   qpm : {-120, 0, 60, DEFAULT_QUARTERS_PER_MINUTE},
   condition_on_primer : {FALSE},
   inject_primer_during_generation : {TRUE},
   temperature : {R(1)},
   beam_size : {1}, branch_factor : {1}, steps_per_iteration : {1}]

\* generate is called once
GenerateInit ==
  /\ pc = "L93"
  /\ globals = <<>>
  /\ args \in GenerateArgs
  /\ frame = <<>>
  /\ fs \in {d \in InitialDirectories : filenames[1] \notin DOMAIN d}
  /\ error = "none"
  /\ log = <<>>

SpecGenerate == GenerateInit /\ [][GenerateNext]_vars

---------------------------------------------------------------------------
(* Helpers of the properties *)

EventsOf(ev) == {q \in 1..Len(log) : log[q].ev = ev}

WritesOf(stage) == {q \in EventsOf("write") : log[q].stage = stage}

\* stage j has returned from line 191 (before line 216 binds it, x still
\* holds the last element of bars)
Completed(j) ==
  /\ pc # "L216"
  /\ \/ j < Stage
     \/ j = Stage /\ pc \in {"L195", "returned", "done"}

\* the errors of the capabilities generate relies on and of its own checks
StageErrors ==
  {"BundleError", "NotFound", "MultipleTempos", "TotalLengthTooSmall",
   "GenerationError", "WriteError"}

---------------------------------------------------------------------------
(* C1: stages run in index order and are chained.  Each call of the        *)
(* generator for stage i comes after exactly i earlier calls; for i >= 1   *)
(* the primer it is given is the file, by name and content, that stage     *)
(* i-1 wrote before; the primer of stage 0 is a file no stage writes.      *)

C1_ChainedInOrder ==
  /\ \A i \in 1..(Len(globals.primers) - 1) :
       At(globals.primers, i) = At(globals.filenames, i - 1)
  /\ \A p \in EventsOf("generate") :
       LET i == log[p].stage
       IN  /\ Cardinality({q \in EventsOf("generate") : q < p}) = i
           /\ i > 0 =>
                \E q \in WritesOf(i - 1) :
                  /\ q < p
                  /\ log[q].name = log[p].name
                  /\ log[q].seq = log[p].seq
           /\ i = 0 =>
                \A q \in EventsOf("write") : log[q].name # log[p].name

\* the last stage's generator call was fed the file the fifth stage wrote
C1_Witness ==
  \E p \in EventsOf("generate") :
    /\ log[p].stage = 5
    /\ log[p].name = "primer4.mid"
    /\ \E q \in WritesOf(4) : q < p /\ log[q].seq = log[p].seq

---------------------------------------------------------------------------
(* C2: fail-fast.  Once a stage has raised, no step follows: no later      *)
(* stage is started and nothing more is written; the failed stage and the  *)
(* later ones have written nothing, and the file of every earlier stage    *)
(* still holds what that stage wrote.                                      *)

C2_FailedState ==
  error # "none" =>
    /\ pc = "failed"
    /\ \A q \in 1..Len(log) : log[q].stage <= Stage
    /\ \A q \in EventsOf("write") : log[q].stage < Stage
    /\ \A j \in 0..(Stage - 1) :
         \E q \in WritesOf(j) :
           /\ log[q].name \in DOMAIN fs
           /\ fs[log[q].name] = log[q].seq

C2_FailFast ==
  /\ []C2_FailedState
  /\ [][error # "none" => UNCHANGED vars]_vars

\* the fourth stage failed after three stages had written their files
C2_Witness ==
  /\ error \in StageErrors
  /\ Stage = 3
  /\ Cardinality(EventsOf("write")) = 3

---------------------------------------------------------------------------
(* C3: one artifact per completed stage, none overwritten.  The output     *)
(* names are pairwise distinct and differ from the external primer's name; *)
(* every stage has written at most once, exactly once when it completed;   *)
(* every file a stage wrote, and the external primer stage 0 loaded, still *)
(* holds the same content.                                                 *)

C3_NoOverwrite ==
  /\ \A i, j \in 1..Len(globals.filenames) :
       /\ i # j => globals.filenames[i] # globals.filenames[j]
       /\ globals.filenames[i] # globals.primers[1]
  /\ \A j \in 0..(Len(globals.bars) - 1) :
       /\ Cardinality(WritesOf(j)) <= 1
       /\ Completed(j) => Cardinality(WritesOf(j)) = 1
  /\ \A q \in EventsOf("write") :
       /\ log[q].name \in DOMAIN fs
       /\ fs[log[q].name] = log[q].seq
  /\ \A q \in EventsOf("load") :
       log[q].stage = 0 =>
         /\ log[q].name \in DOMAIN fs
         /\ fs[log[q].name] = log[q].seq

\* all six stages have written and the first artifact is still the first
\* stage's output
C3_Witness ==
  /\ pc = "done"
  /\ Cardinality(EventsOf("write")) = 6
  /\ \E q \in WritesOf(0) : fs["primer.mid"] = log[q].seq

---------------------------------------------------------------------------
(* C4: a run in which no capability fails and no check of generate raises  *)
(* ends with all six stages completed, one artifact each.                  *)

C4_RunCompletes ==
  (pc \in {"failed", "done"} /\ error \notin StageErrors) =>
    /\ pc = "done"
    /\ \A j \in 0..5 : Cardinality(WritesOf(j)) = 1

---------------------------------------------------------------------------
(* Helpers of the properties of one call *)

Bound(name) == name \in DOMAIN frame

\* the directory holds what it held when generate was called
NothingWritten ==
  /\ EventsOf("write") = {}
  /\ args.midi_filename \notin DOMAIN fs

GeneratorNotCalled == EventsOf("generate") = {}

---------------------------------------------------------------------------
(* C5: the length check.  Once line 148 has run, the total-length error    *)
(* is the outcome exactly when total_length_steps minus the primer length  *)
(* in steps is <= 0; the primer length in steps is the primer's duration   *)
(* rounded up to whole steps; when the error is raised the generator was   *)
(* not called and nothing was written; otherwise primer steps plus         *)
(* generation steps equal the total and generation steps are >= 1.         *)

C5_LengthCheck ==
  /\ error = "TotalLengthTooSmall" => Bound("primer_sequence_length_steps")
  /\ Bound("primer_sequence_length_steps") =>
       LET pls == frame.primer_sequence_length_steps
           sps == frame.seconds_per_step
           t   == frame.primer_sequence.total_time
       IN  /\ error = "TotalLengthTooSmall" <=> args.total_length_steps - pls <= 0
           /\ RLess(R(0), sps) =>
                /\ RLeq(t, RMul(R(pls), sps))
                /\ RLess(RMul(R(pls - 1), sps), t)
           /\ error = "TotalLengthTooSmall" => GeneratorNotCalled /\ NothingWritten
           /\ error # "TotalLengthTooSmall" =>
                /\ pls + frame.generation_length_steps = args.total_length_steps
                /\ frame.generation_length_steps >= 1
                /\ Bound("generation_end_time")

\* a primer of 2 s = 16 steps and a total of 16 steps: nothing is left
C5_Witness ==
  /\ error = "TotalLengthTooSmall"
  /\ frame.primer_sequence_length_steps = 16
  /\ args.total_length_steps = 16
  /\ frame.generation_length_steps = 0

---------------------------------------------------------------------------
(* C6 as stated: for a primer of positive length in time the generation    *)
(* window starts at the primer window's end and is exactly                 *)
(* generation_length_time long.                                            *)

C6_WindowLengthIsGenerationTime ==
  (Bound("generation_end_time") /\ RLess(R(0), frame.primer_sequence_length_time)) =>
    /\ frame.generation_start_time = frame.primer_end_time
    /\ RSub(frame.generation_end_time, frame.generation_start_time)
         = frame.generation_length_time

(* C6 amended: for a primer of positive length in time the generation      *)
(* window starts at the primer window's end and is generation_length_time  *)
(* plus the adjustment 0.00001 long, so that it ends at                    *)
(* total_length_steps * seconds_per_step.                                  *)

C6_WindowLengthIncludesAdjust ==
  (Bound("generation_end_time") /\ RLess(R(0), frame.primer_sequence_length_time)) =>
    /\ frame.generation_start_time = frame.primer_end_time
    /\ frame.primer_end_time
         = RSub(frame.primer_sequence_length_time, Rat(1, 100000))
    /\ RSub(frame.generation_end_time, frame.generation_start_time)
         = RAdd(frame.generation_length_time, Rat(1, 100000))
    /\ frame.generation_end_time
         = RMul(R(args.total_length_steps), frame.seconds_per_step)

\* qpm 120, 4 steps per quarter, a primer of 2 s, 64 steps in all:
\* the windows are [0, 1.99999] and [1.99999, 8]
C6_Witness ==
  /\ Bound("generation_end_time")
  /\ frame.seconds_per_step = Rat(1, 8)
  /\ frame.primer_sequence.total_time = R(2)
  /\ args.total_length_steps = 64
  /\ frame.generation_start_time = Rat(199999, 100000)
  /\ frame.generation_end_time = R(8)

---------------------------------------------------------------------------
(* C7 as stated: with qpm 120, 4 steps per quarter, no primer and 48       *)
(* steps in all, seconds_per_step is 0.125, the primer is 0 steps, the     *)
(* generation 48 steps, and the window given to the generator is           *)
(* [0, 6.00001].                                                           *)

ScenarioA ==
  /\ args.qpm = 120
  /\ args.steps_per_quarter = 4
  /\ args.primer_filename = NoPrimer
  /\ args.total_length_steps = 48

C7_ScenarioA_Stated ==
  (ScenarioA /\ Bound("generation_end_time")) =>
    /\ frame.seconds_per_step = Rat(1, 8)
    /\ frame.primer_sequence_length_steps = 0
    /\ frame.generation_length_steps = 48
    /\ frame.generation_start_time = R(0)
    /\ frame.generation_end_time = Rat(600001, 100000)

(* C7 amended: the same with the window [0, 6.0]: the primer is empty, so  *)
(* no adjustment is made.  The generator is called with that window.       *)

C7_ScenarioA ==
  /\ (ScenarioA /\ Bound("qpm") /\ pc # "L126") =>
       /\ error \notin {"ZeroDivisionError", "TotalLengthTooSmall", "MultipleTempos"}
       /\ frame.primer_sequence = NoteSequence
       /\ frame.seconds_per_step = Rat(1, 8)
       /\ frame.primer_sequence_length_steps = 0
       /\ frame.primer_end_adjust = R(0)
       /\ frame.primer_end_time = R(0)
       /\ frame.generation_length_steps = 48
       /\ frame.generation_start_time = R(0)
       /\ frame.generation_end_time = R(6)
  /\ ScenarioA =>
       \A q \in EventsOf("generate") :
         log[q].start_time = R(0) /\ log[q].end_time = R(6)

C7_Witness ==
  /\ ScenarioA
  /\ \E q \in EventsOf("generate") : log[q].end_time = R(6)
  /\ pc = "returned"

---------------------------------------------------------------------------
(* C8: tempo resolution.  Once lines 119-122 have run, the multiple-tempos *)
(* error is the outcome exactly when the loaded primer has more than one   *)
(* tempo record, and then no window is computed, the generator is not      *)
(* called and nothing is written; otherwise qpm is the primer's tempo when *)
(* it has one and the argument qpm when it has none, and it is the qpm     *)
(* seconds_per_step is computed from.                                      *)

C8_TempoResolution ==
  /\ error = "MultipleTempos" => Bound("primer_sequence")
  /\ (Bound("primer_sequence") /\ pc # "L119") =>
       LET tempos == frame.primer_sequence.tempos
       IN  /\ error = "MultipleTempos" <=> Len(tempos) > 1
           /\ error = "MultipleTempos" =>
                /\ ~Bound("qpm")
                /\ ~Bound("seconds_per_step")
                /\ ~Bound("generation_end_time")
                /\ GeneratorNotCalled
                /\ NothingWritten
           /\ error # "MultipleTempos" =>
                /\ Len(tempos) = 1 => frame.qpm = tempos[1]
                /\ Len(tempos) = 0 => frame.qpm = args.qpm
                /\ Bound("seconds_per_step") =>
                     RMul(frame.seconds_per_step,
                          R(frame.qpm * args.steps_per_quarter)) = R(60)

\* a primer with two tempo records was refused
C8_Witness ==
  /\ error = "MultipleTempos"
  /\ Len(frame.primer_sequence.tempos) = 2

\* a primer with one tempo record of 60 overrode the argument 120
C8_OverrideReached ==
  /\ Bound("seconds_per_step")
  /\ args.qpm = 120
  /\ frame.primer_sequence.tempos = <<60>>
  /\ frame.qpm = 60

---------------------------------------------------------------------------
(* C9: a non-positive time base is refused.  Once line 126 has been        *)
(* passed with qpm <= 0 or steps_per_quarter <= 0, generate has raised, no *)
(* window has been computed and the generator has not been called; any     *)
(* seconds_per_step that is computed is positive.                          *)

C9_NonPositiveTimeBaseRefused ==
  /\ (Bound("qpm") /\ pc # "L126"
        /\ (frame.qpm <= 0 \/ frame.generator_steps_per_quarter <= 0)) =>
       /\ error # "none"
       /\ ~Bound("seconds_per_step")
       /\ GeneratorNotCalled
  /\ Bound("seconds_per_step") => RLess(R(0), frame.seconds_per_step)

---------------------------------------------------------------------------
(* C10: the hard-coded schedule leaves every chained stage room.           *)
(* steps[i] is (bars[0]+...+bars[i]) * s_p_q[i] * 4.  When every stage so  *)
(* far ran at the current stage's qpm and every output written lasts no    *)
(* longer than the cumulative bars of its stage, a stage i >= 1 that has   *)
(* measured its primer finds at most (bars[0]+...+bars[i-1]) * 4 *         *)
(* s_p_q[i] steps, so at least bars[i] * 4 * s_p_q[i] >= 1 steps are left  *)
(* to generate and the total-length error is not raised.                   *)

\* bars[0] + ... + bars[i]
CumulativeBars(i) == TotalBarsAfter(bars, i + 1)

\* every stage so far ran at the qpm of the current one
ConstantTempo ==
  /\ Bound("qpm")
  /\ \A q \in EventsOf("generate") : log[q].qpm = frame.qpm

\* every output written lasts no longer than the cumulative bars of its
\* stage at the qpm it ran at: 4 quarters a bar, 60 / qpm seconds a quarter
OutputsWithinLength ==
  \A q \in EventsOf("write") :
    RLeq(log[q].seq.total_time, Rat(CumulativeBars(log[q].stage) * 4 * 60, log[q].qpm))

C10_ScheduleLeavesRoom ==
  /\ \A i \in 0..(Len(bars) - 1) :
       At(globals.steps, i) = CumulativeBars(i) * At(s_p_q, i) * 4
  /\ (pc # "L216" /\ Stage >= 1 /\ Bound("generation_length_steps")
        /\ ConstantTempo /\ OutputsWithinLength) =>
       /\ frame.primer_sequence_length_steps
            <= CumulativeBars(Stage - 1) * 4 * At(s_p_q, Stage)
       /\ frame.generation_length_steps >= At(bars, Stage) * 4 * At(s_p_q, Stage)
       /\ frame.generation_length_steps >= 1
       /\ error # "TotalLengthTooSmall"

\* the last stage, 2 steps per quarter, measured a primer of 40 bars as 320
\* steps of its own and was left 4 bars = 32 steps
C10_Witness ==
  /\ pc # "L216"
  /\ Stage = 5
  /\ Bound("generation_length_steps")
  /\ ConstantTempo
  /\ OutputsWithinLength
  /\ frame.primer_sequence_length_steps = 320
  /\ frame.generation_length_steps = 32

\* without a constant tempo the length check does fail at a chained stage
C10_TempoChangeFails ==
  /\ pc = "failed"
  /\ Stage >= 1
  /\ error = "TotalLengthTooSmall"
  /\ OutputsWithinLength

====
